---------------------------- MODULE Spec2Model ----------------------------
(***************************************************************************)
(* School / Student REST API (routes/schools.js, routes/students.js over   *)
(* the mongoose models School and Student).                                *)
(*                                                                         *)
(* The store is the two collections.  A handler is a sequence of store     *)
(* calls separated by awaits; one action is one store call together with   *)
(* the synchronous code that follows it up to the next store call.  The    *)
(* read that only builds the response body (findById().populate() after    *)
(* the last write) is folded into the step that completes the handler.     *)
(*                                                                         *)
(* School.students is an array: it is kept as the multiplicity of every id *)
(* in it (the order of the array is not observable by any route).          *)
(* Of the scalar fields, name, email and establishedYear are kept; a text   *)
(* value is kept as what the schema setters and validators can tell apart  *)
(* (which text, whether it has upper-case letters, whether it is padded    *)
(* with white space).  The other required fields are always supplied.      *)
(***************************************************************************)
EXTENDS Integers, FiniteSets, Sequences

\* ---------------------------------------------------------------- bounds
\* School / Student _ids generated in one run
MaxSchools == 2
MaxStudents == 1
\* longest students array a School request body carries
MaxBodyLen == 1
\* handler slots of the server
NumClients == 2
\* School request bodies that carry a students array in one run
MaxBodyWrites == 1
\* distinct email addresses the clients write
MaxAddr == 2
\* times the calendar year changes while the process runs
MaxYearsUp == 1

\* ------------------------------------------------------------- constants
Null == 0

SchoolIds == 1..MaxSchools
StudentIds == 1..MaxStudents
\* an id that is well formed but was never generated for any School/Student
GhostSchool == MaxSchools + 1
GhostStudent == MaxStudents + 1
Clients == 1..NumClients

VARIABLES
  schools,      \* live School documents: id -> [students: id -> multiplicity]
  students,     \* live Student documents: id -> [school: id or Null]
  nextSchool,   \* next School _id to be generated
  nextStudent,  \* next Student _id to be generated
  pc,           \* position of each request handler
  req,          \* request, handler locals and response of each client
  bodyWrites,   \* number of School request bodies so far that carried a students array
  limit,        \* number of requests the server may have in flight
  year,         \* the calendar year now (new Date().getFullYear())
  supplied,     \* per School: the field values its creating request carried
  env           \* process.env.NODE_ENV

vars == <<schools, students, nextSchool, nextStudent, pc, req, bodyWrites, limit,
          year, supplied, env>>

\* ---------------------------------------------------------- field values
\* a text value: which text (0: the empty string or no value at all), whether
\* it has upper-case letters, whether white space surrounds it
NoText == [core |-> 0, upper |-> FALSE, padded |-> FALSE]
Text(c) == [core |-> c, upper |-> FALSE, padded |-> FALSE]
\* a text that the path's match / maxlength validator rejects
Malformed == -1
\* establishedYear: min
MinYear == 1800
\* establishedYear: max, new Date().getFullYear() when the schema was built
BootYear == 2026
NoYear == 0

\* trim: true
Trim(t) == [t EXCEPT !.padded = FALSE]
\* lowercase: true
LowerCase(t) == [t EXCEPT !.upper = FALSE]
\* the setters of School.name and of School.email / Student.email
SetName(t) == Trim(t)
\* the value is stored as it was written
SetEmail_Raw(t) == t
SetEmail(t) == LowerCase(Trim(t))

\* required, maxlength
ValidName(t) == SetName(t).core # 0 /\ SetName(t).core # Malformed
\* no validator on the path
ValidEmail_Any(t) == TRUE
\* required, match
ValidEmail(t) == SetEmail(t).core >= 1
\* required, min, max
ValidYear(y) == y # NoYear /\ y >= MinYear /\ y <= BootYear

NoFields == [name |-> NoText, email |-> NoText, year |-> NoYear]

\* document validation on save()
ValidateSchool(f) == ValidName(f.name) /\ ValidEmail(f.email) /\ ValidYear(f.year)
ValidateStudent(f) == ValidEmail(f.email)
\* update validators: only the paths the update sets
ValidateSchoolUpdate(f) ==
  /\ f.name # NoText => ValidName(f.name)
  /\ f.email # NoText => ValidEmail(f.email)
  /\ f.year # NoYear => ValidYear(f.year)
\* the update runs without validators
ValidateStudentUpdate_Any(f) == TRUE
ValidateStudentUpdate(f) == f.email # NoText => ValidEmail(f.email)

\* no index
EmailTaken_Never(coll, e, self) == FALSE
\* the unique index on email: another document holds this value
EmailTaken(coll, e, self) == \E x \in DOMAIN coll \ {self} : coll[x].email = e

\* ------------------------------------------------------- array operators
EmptyArr == [x \in {} |-> 0]

Has(arr, x) == x \in DOMAIN arr

RECURSIVE SumOver(_, _)
SumOver(arr, D) ==
  IF D = {} THEN 0
  ELSE LET x == CHOOSE y \in D : TRUE IN arr[x] + SumOver(arr, D \ {x})

\* students.length
Len_(arr) == SumOver(arr, DOMAIN arr)

\* an $addToSet that never lands
AddToSet_Dropped(arr, x) == arr

\* { $addToSet: { students: x } }
AddToSet(arr, x) ==
  IF x \in DOMAIN arr THEN arr
  ELSE [y \in DOMAIN arr \cup {x} |-> IF y = x THEN 1 ELSE arr[y]]

\* a $pull that takes nothing out
Pull_Keep(arr, x) == arr

\* { $pull: { students: x } }
Pull(arr, x) == [y \in DOMAIN arr \ {x} |-> arr[y]]

\* the arrays of at most MaxBodyLen ids a request body can carry
BodyArrays(ids) ==
  { b \in UNION { [D -> 1..MaxBodyLen] : D \in SUBSET ids } : Len_(b) <= MaxBodyLen }

\* ------------------------------------------------------- store operators
SchoolExists(s) == s \in DOMAIN schools
StudentExists(i) == i \in DOMAIN students

\* the same update issued with { upsert: true }
SchoolsAddToSet_Upsert(sch, s, i) ==
  IF s \in DOMAIN sch
  THEN [sch EXCEPT ![s].students = AddToSet(@, i)]
  ELSE [x \in DOMAIN sch \cup {s} |->
          IF x = s
          THEN [students |-> AddToSet([y \in {} |-> 0], i), name |-> NoText,
                email |-> NoText, year |-> NoYear]
          ELSE sch[x]]

\* School.findByIdAndUpdate(s, { $addToSet: { students: i } }): no document, no write
SchoolsAddToSet(sch, s, i) ==
  IF s \in DOMAIN sch
  THEN [sch EXCEPT ![s].students = AddToSet(@, i)]
  ELSE sch

\* the old school is left as it was
SchoolsPull_Skipped(sch, s, i) == sch

\* School.findByIdAndUpdate(s, { $pull: { students: i } })
SchoolsPull(sch, s, i) ==
  IF s \in DOMAIN sch
  THEN [sch EXCEPT ![s].students = Pull(@, i)]
  ELSE sch

\* updateMany with an empty filter
StudentsUnsetSchool_All(stu, s) ==
  [i \in DOMAIN stu |-> [stu[i] EXCEPT !.school = Null]]

\* Student.updateMany({ school: s }, { $unset: { school: 1 } }); the schema
\* default (null) is what a later read of the document shows
StudentsUnsetSchool(stu, s) ==
  [i \in DOMAIN stu |-> IF stu[i].school = s THEN [stu[i] EXCEPT !.school = Null] ELSE stu[i]]

\* collection.insert / findByIdAndDelete
Insert(coll, id, doc) == [x \in DOMAIN coll \cup {id} |-> IF x = id THEN doc ELSE coll[x]]
Remove(coll, id) == [x \in DOMAIN coll \ {id} |-> coll[x]]

\* .populate('school', ...): the referenced document, or null when the
\* reference does not resolve.  A populated path is <<"doc", id>>, a plain
\* ObjectId is <<"oid", id>>, null is <<"null">>.
Populate(sch, ref) ==
  IF ref = Null THEN <<"null">>
  ELSE IF ref \in DOMAIN sch THEN <<"doc", ref>> ELSE <<"null">>

Unpopulated(ref) == IF ref = Null THEN <<"null">> ELSE <<"oid", ref>>

\* truthiness of a path value
Truthy(v) == v # <<"null">>

\* value.toString(): an ObjectId prints its hex string, a populated document
\* prints the inspection of the document; v?.toString() of null is undefined
toString(v) ==
  IF v[1] = "oid" THEN <<"hex", v[2]>>
  ELSE IF v[1] = "doc" THEN <<"inspect", v[2]>>
  ELSE <<"undefined">>

\* the _id a query casts a path value to
CastId(v) == IF Truthy(v) THEN v[2] ELSE Null

\* ------------------------------------------------------------- responses
\* the error member of a response body: absent, error.message of the caught
\* error, or the fixed text of the error middleware
NoError == ""
RawError == "error.message"
NoRes == [status |-> 0, message |-> "", error |-> NoError]
\* every 500 of the route handlers comes from the catch block, which puts
\* error.message in the body
Res(st, msg) ==
  [status |-> st, message |-> msg, error |-> IF st = 500 THEN RawError ELSE NoError]

NoPre == [schools |-> EmptyArr, students |-> EmptyArr]
NoData == [kind |-> "none"]

IdleReq ==
  [op |-> "none", id |-> Null, hasSchool |-> FALSE, school |-> Null,
   hasStudents |-> FALSE, body |-> EmptyArr, valid |-> TRUE,
   old |-> Null, cur |-> <<"null">>, res |-> NoRes, pre |-> NoPre,
   fields |-> NoFields, data |-> NoData, failedAt |-> "", now |-> NoYear]

Snapshot == [schools |-> schools, students |-> students]

\* a request as it enters its handler
NewReq(op, id, hasSchool, school, valid) ==
  [IdleReq EXCEPT !.op = op, !.id = id, !.hasSchool = hasSchool,
                  !.school = school, !.valid = valid, !.pre = Snapshot,
                  !.now = year]

\* the ids a client can name: every id generated so far, and one that never was
KnownSchools == (1..(nextSchool - 1)) \cup {GhostSchool}
KnownStudents == (1..(nextStudent - 1)) \cup {GhostStudent}

InFlight == { q \in Clients : pc[q] # "idle" }

\* a request is accepted while fewer than `limit` are in flight; it is
\* served by the first free handler slot
MayBegin(p) ==
  /\ pc[p] = "idle"
  /\ Cardinality(InFlight) < limit
  /\ \A q \in Clients : q < p => pc[q] # "idle"

Goto(p, label, r) ==
  /\ pc' = [pc EXCEPT ![p] = label]
  /\ req' = [req EXCEPT ![p] = r]

Finish(p, r, st, msg) == Goto(p, "done", [r EXCEPT !.res = Res(st, msg)])

\* ------------------------------------------------------------------ Init
Init ==
  /\ schools = EmptyArr
  /\ students = EmptyArr
  /\ nextSchool = 1
  /\ nextStudent = 1
  /\ pc = [p \in Clients |-> "idle"]
  /\ req = [p \in Clients |-> IdleReq]
  /\ limit = 1
  /\ bodyWrites = 0
  /\ year = BootYear
  /\ supplied = EmptyArr
  /\ env = "production"

\* ----------------------------------------------------- routes/schools.js
\* what a response carries of a School document
SchoolData(doc, ids) ==
  [kind |-> "school", name |-> doc.name, email |-> doc.email, year |-> doc.year,
   students |-> ids]

\* the students array a School request body may carry: none, or an array
BodyStudents ==
  { <<FALSE, EmptyArr>> } \cup { <<TRUE, a>> : a \in BodyArrays(1..(nextStudent - 1)) }

\* School request bodies whose scalar fields are fixed: a complete one with
\* an address of its own, and one with no field at all
NewSchoolBodies ==
  { [fields |-> [name |-> Text(1), email |-> Text(nextSchool), year |-> MinYear],
     hasStudents |-> b[1], students |-> b[2]] : b \in BodyStudents }
  \cup { [fields |-> NoFields, hasStudents |-> FALSE, students |-> EmptyArr] }

\* School update bodies that set no scalar field, and one with a bad email
SchoolUpdateBodies ==
  { [fields |-> NoFields, hasStudents |-> b[1], students |-> b[2]] : b \in BodyStudents }
  \cup { [fields |-> [NoFields EXCEPT !.email = Text(Malformed)],
          hasStudents |-> FALSE, students |-> EmptyArr] }

\* POST /api/schools: new School(req.body).save()
CreateSchoolWith(p, Bodies) ==
  /\ MayBegin(p)
  /\ \E b \in Bodies :
       /\ b.hasStudents => bodyWrites < MaxBodyWrites
       /\ bodyWrites' = IF b.hasStudents THEN bodyWrites + 1 ELSE bodyWrites
       /\ LET valid == ValidateSchool(b.fields)
              doc == [students |-> b.students, name |-> SetName(b.fields.name),
                      email |-> SetEmail(b.fields.email), year |-> b.fields.year]
              r == [NewReq("createSchool", Null, FALSE, Null, valid)
                      EXCEPT !.hasStudents = b.hasStudents, !.body = b.students,
                             !.fields = b.fields] IN
          IF ~valid
          THEN /\ Finish(p, r, 400, "Validation error")
               /\ UNCHANGED <<schools, nextSchool, supplied>>
          ELSE IF EmailTaken(schools, doc.email, Null)
          THEN \* E11000 from the unique index
               /\ Finish(p, r, 400, "Email already exists")
               /\ UNCHANGED <<schools, nextSchool, supplied>>
          ELSE /\ nextSchool <= MaxSchools
               /\ schools' = Insert(schools, nextSchool, doc)
               /\ nextSchool' = nextSchool + 1
               /\ supplied' = Insert(supplied, nextSchool, b.fields)
               /\ Finish(p, [r EXCEPT !.id = nextSchool,
                                      !.data = SchoolData(doc, DOMAIN doc.students)],
                         201, "School created successfully")
  /\ UNCHANGED <<students, nextStudent, limit, year, env>>

CreateSchool(p) == CreateSchoolWith(p, NewSchoolBodies)

\* PUT /api/schools/:id: School.findByIdAndUpdate(id, req.body, { runValidators })
UpdateSchoolWith(p, Bodies) ==
  /\ MayBegin(p)
  /\ \E id \in KnownSchools, b \in Bodies :
       /\ b.hasStudents => bodyWrites < MaxBodyWrites
       /\ bodyWrites' = IF b.hasStudents THEN bodyWrites + 1 ELSE bodyWrites
       /\ LET f == b.fields
              valid == ValidateSchoolUpdate(f)
              r == [NewReq("updateSchool", id, FALSE, Null, valid)
                      EXCEPT !.hasStudents = b.hasStudents, !.body = b.students,
                             !.fields = f] IN
          IF ~valid
          THEN /\ Finish(p, r, 400, "Validation error")
               /\ UNCHANGED <<schools, supplied>>
          ELSE IF ~SchoolExists(id)
          THEN /\ Finish(p, r, 404, "School not found")
               /\ UNCHANGED <<schools, supplied>>
          ELSE LET old == schools[id]
                   doc == [students |-> IF b.hasStudents THEN b.students ELSE old.students,
                           name |-> IF f.name # NoText THEN SetName(f.name) ELSE old.name,
                           email |-> IF f.email # NoText THEN SetEmail(f.email) ELSE old.email,
                           year |-> IF f.year # NoYear THEN f.year ELSE old.year] IN
               IF EmailTaken(schools, doc.email, id)
               THEN \* E11000: the handler has no branch for it
                    /\ Finish(p, r, 500, "Error updating school")
                    /\ UNCHANGED <<schools, supplied>>
               ELSE /\ schools' = [schools EXCEPT ![id] = doc]
                    /\ supplied' = IF f = NoFields THEN supplied ELSE Remove(supplied, id)
                    /\ Finish(p, [r EXCEPT !.data =
                                     SchoolData(doc, { i \in DOMAIN doc.students : StudentExists(i) })],
                              200, "School updated successfully")
  /\ UNCHANGED <<students, nextSchool, nextStudent, limit, year, env>>

UpdateSchool(p) == UpdateSchoolWith(p, SchoolUpdateBodies)

\* GET /api/schools/:id: School.findById(id).populate('students', ...)
GetSchool(p) ==
  /\ MayBegin(p)
  /\ \E id \in KnownSchools :
       LET r == NewReq("getSchool", id, FALSE, Null, TRUE) IN
       IF ~SchoolExists(id)
       THEN Finish(p, r, 404, "School not found")
       ELSE Finish(p, [r EXCEPT !.data =
                         SchoolData(schools[id],
                                    { i \in DOMAIN schools[id].students : StudentExists(i) })],
                   200, "")
  /\ UNCHANGED <<schools, students, nextSchool, nextStudent, limit, bodyWrites, year, supplied, env>>

\* DELETE /api/schools/:id: School.findById(id)
DeleteSchoolFind(p) ==
  /\ MayBegin(p)
  /\ \E id \in KnownSchools :
       LET r == NewReq("deleteSchool", id, FALSE, Null, TRUE) IN
       IF ~SchoolExists(id)
       THEN Finish(p, r, 404, "School not found")
       ELSE Goto(p, "deleteSchool_unset", r)
  /\ UNCHANGED <<schools, students, nextSchool, nextStudent, limit, bodyWrites, year, supplied, env>>

\* Student.updateMany({ school: id }, { $unset: { school: 1 } })
DeleteSchoolUnset(p) ==
  /\ pc[p] = "deleteSchool_unset"
  /\ students' = StudentsUnsetSchool(students, req[p].id)
  /\ Goto(p, "deleteSchool_delete", req[p])
  /\ UNCHANGED <<schools, nextSchool, nextStudent, limit, bodyWrites, year, supplied, env>>

\* School.findByIdAndDelete(id)
DeleteSchoolDelete(p) ==
  /\ pc[p] = "deleteSchool_delete"
  /\ schools' = Remove(schools, req[p].id)
  /\ supplied' = Remove(supplied, req[p].id)
  /\ Finish(p, req[p], 200, "School deleted successfully")
  /\ UNCHANGED <<students, nextSchool, nextStudent, limit, bodyWrites, year, env>>

\* the response is sent and the handler slot is free again
Respond(p) ==
  /\ pc[p] = "done"
  /\ pc' = [pc EXCEPT ![p] = "idle"]
  /\ req' = [req EXCEPT ![p] = IdleReq]
  /\ UNCHANGED <<schools, students, nextSchool, nextStudent, limit, bodyWrites, year, supplied, env>>

\* ---------------------------------------------------- routes/students.js
\* the school a student request body may name: none, null, or an id
BodySchools == { <<FALSE, Null>>, <<TRUE, Null>> } \cup { <<TRUE, s>> : s \in KnownSchools }

\* Student request bodies whose email is fixed: a complete one with an
\* address of its own, and one with no email
NewStudentBodies ==
  { [fields |-> [NoFields EXCEPT !.email = e], hasSchool |-> b[1], school |-> b[2]] :
      e \in {Text(nextStudent), NoText}, b \in BodySchools }

\* Student update bodies that set no email, or a bad one
StudentUpdateBodies ==
  { [fields |-> [NoFields EXCEPT !.email = e], hasSchool |-> b[1], school |-> b[2]] :
      e \in {NoText, Text(Malformed)}, b \in BodySchools }

\* POST /api/students: new Student(req.body).save()
\* (the 201 message is kept without its trailing version mark)
CreateStudentSaveWith(p, Bodies) ==
  /\ MayBegin(p)
  /\ \E b \in Bodies :
       LET valid == ValidateStudent(b.fields)
           doc == [school |-> b.school, email |-> SetEmail(b.fields.email)]
           r == [NewReq("createStudent", Null, b.hasSchool, b.school, valid)
                   EXCEPT !.fields = b.fields] IN
       IF ~valid
       THEN /\ Finish(p, r, 400, "Validation error")
            /\ UNCHANGED <<students, nextStudent>>
       ELSE IF EmailTaken(students, doc.email, Null)
       THEN \* E11000 from the unique index
            /\ Finish(p, r, 400, "Email already exists")
            /\ UNCHANGED <<students, nextStudent>>
       ELSE /\ nextStudent <= MaxStudents
            /\ students' = Insert(students, nextStudent, doc)
            /\ nextStudent' = nextStudent + 1
            /\ LET r2 == [r EXCEPT !.id = nextStudent, !.cur = Unpopulated(b.school)] IN
               IF Truthy(r2.cur)
               THEN Goto(p, "createStudent_add", r2)
               ELSE Finish(p, r2, 201, "Student created successfully")
  /\ UNCHANGED <<schools, nextSchool, limit, bodyWrites, year, supplied, env>>

CreateStudentSave(p) == CreateStudentSaveWith(p, NewStudentBodies)

\* School.findByIdAndUpdate(savedStudent.school, { $addToSet: { students: savedStudent._id } })
CreateStudentAdd(p) ==
  /\ pc[p] = "createStudent_add"
  /\ schools' = SchoolsAddToSet(schools, CastId(req[p].cur), req[p].id)
  /\ Finish(p, req[p], 201, "Student created successfully")
  /\ UNCHANGED <<students, nextSchool, nextStudent, limit, bodyWrites, year, supplied, env>>

\* PUT /api/students/:id: oldStudent = Student.findById(id)
UpdateStudentFindWith(p, Bodies) ==
  /\ MayBegin(p)
  /\ \E id \in KnownStudents, b \in Bodies :
       LET r == [NewReq("updateStudent", id, b.hasSchool, b.school,
                        ValidateStudentUpdate(b.fields))
                   EXCEPT !.fields = b.fields] IN
       IF ~StudentExists(id)
       THEN Finish(p, r, 404, "Student not found")
       ELSE Goto(p, "updateStudent_update", [r EXCEPT !.old = students[id].school])
  /\ UNCHANGED <<schools, students, nextSchool, nextStudent, limit, bodyWrites, year, supplied, env>>

UpdateStudentFind(p) == UpdateStudentFindWith(p, StudentUpdateBodies)

\* GET /api/students/:id: Student.findById(id).populate('school', ...)
GetStudent(p) ==
  /\ MayBegin(p)
  /\ \E id \in KnownStudents :
       LET r == NewReq("getStudent", id, FALSE, Null, TRUE) IN
       IF ~StudentExists(id)
       THEN Finish(p, r, 404, "Student not found")
       ELSE Finish(p, [r EXCEPT !.data =
                         [kind |-> "student", email |-> students[id].email,
                          school |-> Populate(schools, students[id].school)]],
                   200, "")
  /\ UNCHANGED <<schools, students, nextSchool, nextStudent, limit, bodyWrites, year, supplied, env>>

\* the old school is never told
RemoveFromOld_Never(old, cur) == FALSE

\* oldStudent.school && oldStudent.school.toString() !== student.school?.toString()
RemoveFromOld(old, cur) ==
  /\ Truthy(Unpopulated(old))
  /\ toString(Unpopulated(old)) # toString(cur)

\* the add is made only for a student that had no school
AddToNew_OnlyFromNull(old, cur) ==
  /\ Truthy(cur)
  /\ ~Truthy(Unpopulated(old))

\* student.school && (!oldStudent.school || oldStudent.school.toString() !== student.school.toString())
AddToNew(old, cur) ==
  /\ Truthy(cur)
  /\ (~Truthy(Unpopulated(old)) \/ toString(Unpopulated(old)) # toString(cur))

\* student = Student.findByIdAndUpdate(id, req.body, { new, runValidators }).populate('school')
UpdateStudentUpdate(p) ==
  /\ pc[p] = "updateStudent_update"
  /\ LET r == req[p]
         id == r.id IN
     IF ~r.valid
     THEN /\ Finish(p, r, 400, "Validation error")
          /\ UNCHANGED students
     ELSE IF ~StudentExists(id)
     THEN \* student is null: reading student.school throws
          /\ Finish(p, r, 500, "Error updating student")
          /\ UNCHANGED students
     ELSE IF r.fields.email # NoText /\ EmailTaken(students, SetEmail(r.fields.email), id)
     THEN \* E11000: the handler has no branch for it
          /\ Finish(p, r, 500, "Error updating student")
          /\ UNCHANGED students
     ELSE /\ students' =
               [students EXCEPT ![id] =
                  [school |-> IF r.hasSchool THEN r.school ELSE @.school,
                   email |-> IF r.fields.email # NoText THEN SetEmail(r.fields.email)
                             ELSE @.email]]
          /\ LET cur == Populate(schools, students'[id].school)
                 r2 == [r EXCEPT !.cur = cur] IN
             IF RemoveFromOld(r.old, cur) THEN Goto(p, "updateStudent_pull", r2)
             ELSE IF AddToNew(r.old, cur) THEN Goto(p, "updateStudent_add", r2)
             ELSE Finish(p, r2, 200, "Student updated successfully")
  /\ UNCHANGED <<schools, nextSchool, nextStudent, limit, bodyWrites, year, supplied, env>>

\* School.findByIdAndUpdate(oldStudent.school, { $pull: { students: student._id } })
UpdateStudentPull(p) ==
  /\ pc[p] = "updateStudent_pull"
  /\ schools' = SchoolsPull(schools, req[p].old, req[p].id)
  /\ IF AddToNew(req[p].old, req[p].cur)
     THEN Goto(p, "updateStudent_add", req[p])
     ELSE Finish(p, req[p], 200, "Student updated successfully")
  /\ UNCHANGED <<students, nextSchool, nextStudent, limit, bodyWrites, year, supplied, env>>

\* School.findByIdAndUpdate(student.school, { $addToSet: { students: student._id } })
UpdateStudentAdd(p) ==
  /\ pc[p] = "updateStudent_add"
  /\ schools' = SchoolsAddToSet(schools, CastId(req[p].cur), req[p].id)
  /\ Finish(p, req[p], 200, "Student updated successfully")
  /\ UNCHANGED <<students, nextSchool, nextStudent, limit, bodyWrites, year, supplied, env>>

\* DELETE /api/students/:id: student = Student.findById(id)
DeleteStudentFind(p) ==
  /\ MayBegin(p)
  /\ \E id \in KnownStudents :
       LET r == NewReq("deleteStudent", id, FALSE, Null, TRUE) IN
       IF ~StudentExists(id)
       THEN Finish(p, r, 404, "Student not found")
       ELSE LET r2 == [r EXCEPT !.old = students[id].school] IN
            IF Truthy(Unpopulated(r2.old))
            THEN Goto(p, "deleteStudent_pull", r2)
            ELSE Goto(p, "deleteStudent_delete", r2)
  /\ UNCHANGED <<schools, students, nextSchool, nextStudent, limit, bodyWrites, year, supplied, env>>

\* the student is deleted without being taken out of its school's array
DeleteStudentPull_Skip(p) ==
  /\ pc[p] = "deleteStudent_pull"
  /\ Goto(p, "deleteStudent_delete", req[p])
  /\ UNCHANGED <<schools, students, nextSchool, nextStudent, limit, bodyWrites, year,
                 supplied, env>>

\* School.findByIdAndUpdate(student.school, { $pull: { students: student._id } })
DeleteStudentPull(p) ==
  /\ pc[p] = "deleteStudent_pull"
  /\ schools' = SchoolsPull(schools, req[p].old, req[p].id)
  /\ Goto(p, "deleteStudent_delete", req[p])
  /\ UNCHANGED <<students, nextSchool, nextStudent, limit, bodyWrites, year, supplied, env>>

\* Student.findByIdAndDelete(id)
DeleteStudentDelete(p) ==
  /\ pc[p] = "deleteStudent_delete"
  /\ students' = Remove(students, req[p].id)
  /\ Finish(p, req[p], 200, "Student deleted successfully")
  /\ UNCHANGED <<schools, nextSchool, nextStudent, limit, bodyWrites, year, supplied, env>>

\* a save that reports success and writes nothing
SaveSchool_Lost(stu, id, loaded, v) == [ok |-> TRUE, students |-> stu]

\* document.save() after `student.school = v`: only a modified path is
\* written; the write of a document that is gone throws DocumentNotFoundError
SaveSchool(stu, id, loaded, v) ==
  IF loaded = v THEN [ok |-> TRUE, students |-> stu]
  ELSE IF id \in DOMAIN stu
  THEN [ok |-> TRUE, students |-> [stu EXCEPT ![id].school = v]]
  ELSE [ok |-> FALSE, students |-> stu]

\* enroll without the `if (!school)` return
EnrollFind_NoSchoolCheck(p) ==
  /\ MayBegin(p)
  /\ \E id \in KnownStudents, b \in BodySchools :
       LET r == NewReq("enroll", id, b[1], b[2], TRUE) IN
       IF ~Truthy(Unpopulated(b[2]))
       THEN Finish(p, r, 400, "School ID is required")
       ELSE IF ~StudentExists(id)
       THEN Finish(p, r, 404, "Student not found")
       ELSE LET r2 == [r EXCEPT !.old = students[id].school] IN
            IF Truthy(Unpopulated(r2.old))
            THEN Goto(p, "enroll_pull", r2)
            ELSE Goto(p, "enroll_save", r2)
  /\ UNCHANGED <<schools, students, nextSchool, nextStudent, limit, bodyWrites, year, supplied, env>>

\* PATCH /api/students/:id/enroll: Student.findById(id), School.findById(schoolId)
EnrollFind(p) ==
  /\ MayBegin(p)
  /\ \E id \in KnownStudents, b \in BodySchools :
       LET r == NewReq("enroll", id, b[1], b[2], TRUE) IN
       IF ~Truthy(Unpopulated(b[2]))
       THEN Finish(p, r, 400, "School ID is required")
       ELSE IF ~StudentExists(id)
       THEN Finish(p, r, 404, "Student not found")
       ELSE IF ~SchoolExists(b[2])
       THEN Finish(p, r, 404, "School not found")
       ELSE LET r2 == [r EXCEPT !.old = students[id].school] IN
            IF Truthy(Unpopulated(r2.old))
            THEN Goto(p, "enroll_pull", r2)
            ELSE Goto(p, "enroll_save", r2)
  /\ UNCHANGED <<schools, students, nextSchool, nextStudent, limit, bodyWrites, year, supplied, env>>

\* School.findByIdAndUpdate(student.school, { $pull: { students: student._id } })
EnrollPull(p) ==
  /\ pc[p] = "enroll_pull"
  /\ schools' = SchoolsPull(schools, req[p].old, req[p].id)
  /\ Goto(p, "enroll_save", req[p])
  /\ UNCHANGED <<students, nextSchool, nextStudent, limit, bodyWrites, year, supplied, env>>

\* the save waits until no other request on the same student is under way
EnrollSave_Waits(p) ==
  /\ pc[p] = "enroll_save"
  /\ \A q \in Clients \ {p} : pc[q] \in {"idle", "done"} \/ req[q].id # req[p].id
  /\ LET w == SaveSchool(students, req[p].id, req[p].old, req[p].school) IN
     /\ students' = w.students
     /\ IF w.ok
        THEN Goto(p, "enroll_add", req[p])
        ELSE Finish(p, req[p], 500, "Error enrolling student")
  /\ UNCHANGED <<schools, nextSchool, nextStudent, limit, bodyWrites, year, supplied, env>>

\* student.school = schoolId; student.save()
EnrollSave(p) ==
  /\ pc[p] = "enroll_save"
  /\ LET w == SaveSchool(students, req[p].id, req[p].old, req[p].school) IN
     /\ students' = w.students
     /\ IF w.ok
        THEN Goto(p, "enroll_add", req[p])
        ELSE Finish(p, req[p], 500, "Error enrolling student")
  /\ UNCHANGED <<schools, nextSchool, nextStudent, limit, bodyWrites, year, supplied, env>>

\* School.findByIdAndUpdate(schoolId, { $addToSet: { students: student._id } })
EnrollAdd(p) ==
  /\ pc[p] = "enroll_add"
  /\ schools' = SchoolsAddToSet(schools, req[p].school, req[p].id)
  /\ Finish(p, req[p], 200, "Student enrolled successfully")
  /\ UNCHANGED <<students, nextSchool, nextStudent, limit, bodyWrites, year, supplied, env>>

\* unenroll without the `if (!student.school)` return
UnenrollFind_NoEnrolledCheck(p) ==
  /\ MayBegin(p)
  /\ \E id \in KnownStudents :
       LET r == NewReq("unenroll", id, FALSE, Null, TRUE) IN
       IF ~StudentExists(id)
       THEN Finish(p, r, 404, "Student not found")
       ELSE Goto(p, "unenroll_pull", [r EXCEPT !.old = students[id].school])
  /\ UNCHANGED <<schools, students, nextSchool, nextStudent, limit, bodyWrites, year, supplied, env>>

\* PATCH /api/students/:id/unenroll: student = Student.findById(id)
UnenrollFind(p) ==
  /\ MayBegin(p)
  /\ \E id \in KnownStudents :
       LET r == NewReq("unenroll", id, FALSE, Null, TRUE) IN
       IF ~StudentExists(id)
       THEN Finish(p, r, 404, "Student not found")
       ELSE IF ~Truthy(Unpopulated(students[id].school))
       THEN Finish(p, r, 400, "Student is not enrolled in any school")
       ELSE Goto(p, "unenroll_pull", [r EXCEPT !.old = students[id].school])
  /\ UNCHANGED <<schools, students, nextSchool, nextStudent, limit, bodyWrites, year, supplied, env>>

\* School.findByIdAndUpdate(student.school, { $pull: { students: student._id } })
UnenrollPull(p) ==
  /\ pc[p] = "unenroll_pull"
  /\ schools' = SchoolsPull(schools, req[p].old, req[p].id)
  /\ Goto(p, "unenroll_save", req[p])
  /\ UNCHANGED <<students, nextSchool, nextStudent, limit, bodyWrites, year, supplied, env>>

\* student.school = null; student.save()
UnenrollSave(p) ==
  /\ pc[p] = "unenroll_save"
  /\ LET w == SaveSchool(students, req[p].id, req[p].old, Null) IN
     /\ students' = w.students
     /\ IF w.ok
        THEN Finish(p, req[p], 200, "Student unenrolled successfully")
        ELSE Finish(p, req[p], 500, "Error unenrolling student")
  /\ UNCHANGED <<schools, nextSchool, nextStudent, limit, bodyWrites, year, supplied, env>>

\* ------------------------------------------------------------------ Next
Next ==
  \/ \E p \in Clients : CreateSchool(p)
  \/ \E p \in Clients : UpdateSchool(p)
  \/ \E p \in Clients : GetSchool(p)
  \/ \E p \in Clients : GetStudent(p)
  \/ \E p \in Clients : DeleteSchoolFind(p)
  \/ \E p \in Clients : DeleteSchoolUnset(p)
  \/ \E p \in Clients : DeleteSchoolDelete(p)
  \/ \E p \in Clients : CreateStudentSave(p)
  \/ \E p \in Clients : CreateStudentAdd(p)
  \/ \E p \in Clients : UpdateStudentFind(p)
  \/ \E p \in Clients : UpdateStudentUpdate(p)
  \/ \E p \in Clients : UpdateStudentPull(p)
  \/ \E p \in Clients : UpdateStudentAdd(p)
  \/ \E p \in Clients : DeleteStudentFind(p)
  \/ \E p \in Clients : DeleteStudentPull(p)
  \/ \E p \in Clients : DeleteStudentDelete(p)
  \/ \E p \in Clients : EnrollFind(p)
  \/ \E p \in Clients : EnrollPull(p)
  \/ \E p \in Clients : EnrollSave(p)
  \/ \E p \in Clients : EnrollAdd(p)
  \/ \E p \in Clients : UnenrollFind(p)
  \/ \E p \in Clients : UnenrollPull(p)
  \/ \E p \in Clients : UnenrollSave(p)
  \/ \E p \in Clients : Respond(p)

Spec == Init /\ [][Next]_vars

\* ================================================================ claims
\* no handler is between two store calls
Quiescent == \A p \in Clients : pc[p] \in {"idle", "done"}

\* client p holds the response of a completed `op` request
Done(p, op) == pc[p] = "done" /\ req[p].op = op

\* the school field of student i / the students array of school s when the
\* request of client p entered its handler
PreSchoolOf(p, i) == req[p].pre.students[i].school
PreArr(p, s) == req[p].pre.schools[s].students

\* every school but those of S has the students array it had before p's request
OthersUnchanged(p, S) ==
  /\ DOMAIN schools = DOMAIN req[p].pre.schools
  /\ \A s \in DOMAIN schools \ S : schools[s].students = PreArr(p, s)

\* student -> school direction, school -> student direction
RefsAreMembers ==
  \A i \in DOMAIN students :
    students[i].school # Null =>
      /\ students[i].school \in DOMAIN schools
      /\ Has(schools[students[i].school].students, i)

MembersAreRefs ==
  \A s \in DOMAIN schools :
    \A i \in DOMAIN schools[s].students :
      i \in DOMAIN students /\ students[i].school = s

\* C1: after every completed operation of a non-concurrent sequence, every
\* student with school = X is in the students array of an existing school X,
\* and every id in a students array is an existing student whose school is
\* that school.
C1_TwoWayInvariant == Quiescent => (RefsAreMembers /\ MembersAreRefs)

\* C2: enroll(id, S2) of an existing student enrolled in an existing school
\* S1 # S2 (S2 existing) succeeds with id out of S1's array, in S2's array,
\* student.school = S2 and every other school's array unchanged.
C2_EnrollCase(p) ==
  /\ Done(p, "enroll")
  /\ req[p].id \in DOMAIN req[p].pre.students
  /\ req[p].school \in DOMAIN req[p].pre.schools
  /\ PreSchoolOf(p, req[p].id) \in DOMAIN req[p].pre.schools
  /\ PreSchoolOf(p, req[p].id) # req[p].school

C2_EnrollMoves ==
  \A p \in Clients :
    C2_EnrollCase(p) =>
      LET id == req[p].id
          S1 == PreSchoolOf(p, id)
          S2 == req[p].school IN
      /\ req[p].res.status = 200
      /\ OthersUnchanged(p, {S1, S2})
      /\ ~Has(schools[S1].students, id)
      /\ Has(schools[S2].students, id)
      /\ students[id].school = S2

C2_Witness ==
  \E p \in Clients :
    /\ C2_EnrollCase(p)
    /\ Has(PreArr(p, PreSchoolOf(p, req[p].id)), req[p].id)
    /\ ~Has(PreArr(p, req[p].school), req[p].id)
    /\ students[req[p].id].school = req[p].school

\* C3: createStudent with valid fields and the id of an existing school
\* persists the student with school = that id, puts the new id in that
\* school's array and changes no other school's array.
C3_CreateCase(p) ==
  /\ Done(p, "createStudent")
  /\ req[p].valid
  /\ req[p].school \in DOMAIN req[p].pre.schools

C3_CreateInSchool ==
  \A p \in Clients :
    C3_CreateCase(p) =>
      /\ req[p].res.status = 201
      /\ req[p].id \notin DOMAIN req[p].pre.students
      /\ req[p].id \in DOMAIN students
      /\ students[req[p].id].school = req[p].school
      /\ OthersUnchanged(p, {req[p].school})
      /\ Has(schools[req[p].school].students, req[p].id)

C3_Witness ==
  \E p \in Clients :
    /\ C3_CreateCase(p)
    /\ req[p].id \in DOMAIN students
    /\ DOMAIN schools \ {req[p].school} # {}

\* C4: createStudent given a school id that resolves to no school answers
\* with a not-found error (404).
C4_CreateCase(p) ==
  /\ Done(p, "createStudent")
  /\ req[p].valid
  /\ req[p].school # Null
  /\ req[p].school \notin DOMAIN req[p].pre.schools

C5_CreateUnresolvedPersists ==
  \A p \in Clients :
    C4_CreateCase(p) =>
      /\ req[p].res.status = 201
      /\ req[p].id \notin DOMAIN req[p].pre.students
      /\ req[p].id \in DOMAIN students
      /\ students[req[p].id].school = req[p].school
      /\ schools = req[p].pre.schools

C5_Witness ==
  \E p \in Clients :
    /\ C4_CreateCase(p)
    /\ req[p].id \in DOMAIN students
    /\ DOMAIN schools # {}

\* C6: deleteSchool(X) of an existing school removes X, sets school to null
\* on exactly the students whose school was X, deletes no student and
\* leaves every other student as it was.
C6_DeleteCase(p) ==
  /\ Done(p, "deleteSchool")
  /\ req[p].id \in DOMAIN req[p].pre.schools

C6_DeleteSchoolDereferences ==
  \A p \in Clients :
    C6_DeleteCase(p) =>
      LET X == req[p].id IN
      /\ req[p].res.status = 200
      /\ DOMAIN schools = DOMAIN req[p].pre.schools \ {X}
      /\ DOMAIN students = DOMAIN req[p].pre.students
      /\ \A i \in DOMAIN students :
           students[i] = IF PreSchoolOf(p, i) = X
                         THEN [req[p].pre.students[i] EXCEPT !.school = Null]
                         ELSE req[p].pre.students[i]

C6_Witness ==
  \E p \in Clients :
    /\ C6_DeleteCase(p)
    /\ DOMAIN schools # {}
    /\ \E i \in DOMAIN students :
         /\ PreSchoolOf(p, i) = req[p].id
         /\ students[i].school = Null

\* C6 (second case): deleting a school no student references leaves every
\* student, enrolled elsewhere, unchanged.
C6_WitnessEmpty ==
  \E p \in Clients :
    /\ C6_DeleteCase(p)
    /\ \E i \in DOMAIN students : students[i].school \in DOMAIN schools
    /\ \A i \in DOMAIN students : PreSchoolOf(p, i) # req[p].id
    /\ students = req[p].pre.students

\* C7: unenroll of an existing student whose school is null answers 400 and
\* changes neither the student nor any students array; a successful
\* unenroll leaves school = null, so the next unenroll is that case.
C7_UnenrollCase(p) ==
  /\ Done(p, "unenroll")
  /\ req[p].id \in DOMAIN req[p].pre.students
  /\ PreSchoolOf(p, req[p].id) = Null

C7_UnenrollUnenrolledFails ==
  \A p \in Clients :
    /\ C7_UnenrollCase(p) =>
         /\ req[p].res = Res(400, "Student is not enrolled in any school")
         /\ students = req[p].pre.students
         /\ schools = req[p].pre.schools
    /\ (Done(p, "unenroll") /\ req[p].res.status = 200) =>
         /\ req[p].id \in DOMAIN students
         /\ students[req[p].id].school = Null

C7_Witness ==
  \E p \in Clients :
    /\ C7_UnenrollCase(p)
    /\ \E s \in DOMAIN schools : schools[s].students # EmptyArr

\* C8: enroll(id, S) of a student already enrolled in the existing school S
\* succeeds and leaves S's array with the same members and the same size
\* (id once), student.school = S and every other school's array unchanged.
C8_EnrollCase(p) ==
  /\ Done(p, "enroll")
  /\ req[p].id \in DOMAIN req[p].pre.students
  /\ req[p].school \in DOMAIN req[p].pre.schools
  /\ PreSchoolOf(p, req[p].id) = req[p].school

C9_OmittedCase(p) ==
  /\ Done(p, "enroll")
  /\ (~req[p].hasSchool \/ req[p].school = Null)

C9_MissingCase(p) ==
  /\ Done(p, "enroll")
  /\ req[p].hasSchool /\ req[p].school # Null
  /\ \/ req[p].id \notin DOMAIN req[p].pre.students
     \/ req[p].school \notin DOMAIN req[p].pre.schools

C9_EnrollFailures ==
  \A p \in Clients :
    /\ C9_OmittedCase(p) =>
         /\ req[p].res = Res(400, "School ID is required")
         /\ students = req[p].pre.students /\ schools = req[p].pre.schools
    /\ C9_MissingCase(p) =>
         /\ req[p].res.status = 404
         /\ students = req[p].pre.students /\ schools = req[p].pre.schools

C9_Witness ==
  \E p \in Clients :
    /\ C9_MissingCase(p)
    /\ req[p].id \in DOMAIN students
    /\ students[req[p].id].school # Null
    /\ req[p].school \notin DOMAIN schools

C9_WitnessOmitted ==
  \E p \in Clients :
    /\ C9_OmittedCase(p)
    /\ req[p].id \in DOMAIN students
    /\ students[req[p].id].school # Null

\* C10: updateStudent whose body changes school from S1 to S2 (either may be
\* null; S2, when not null, an existing school) succeeds with id out of S1's
\* array, in S2's array, student.school = S2, other arrays unchanged.
C10_UpdateCase(p) ==
  /\ Done(p, "updateStudent")
  /\ req[p].valid
  /\ req[p].hasSchool
  /\ req[p].id \in DOMAIN req[p].pre.students
  /\ (req[p].school = Null \/ req[p].school \in DOMAIN req[p].pre.schools)
  /\ PreSchoolOf(p, req[p].id) # req[p].school

C10_UpdateMoves ==
  \A p \in Clients :
    C10_UpdateCase(p) =>
      LET id == req[p].id
          S1 == PreSchoolOf(p, id)
          S2 == req[p].school IN
      /\ req[p].res.status = 200
      /\ OthersUnchanged(p, {S1, S2})
      /\ (S1 # Null /\ S1 \in DOMAIN schools) => ~Has(schools[S1].students, id)
      /\ S2 # Null => Has(schools[S2].students, id)
      /\ students[id].school = S2

C10_Witness ==
  \E p \in Clients :
    /\ C10_UpdateCase(p)
    /\ PreSchoolOf(p, req[p].id) \in DOMAIN schools
    /\ req[p].school \in DOMAIN schools
    /\ Has(PreArr(p, PreSchoolOf(p, req[p].id)), req[p].id)
    /\ ~Has(PreArr(p, req[p].school), req[p].id)

\* C10 (to null / from null)
C10_WitnessToNull ==
  \E p \in Clients :
    /\ C10_UpdateCase(p)
    /\ req[p].school = Null
    /\ Has(PreArr(p, PreSchoolOf(p, req[p].id)), req[p].id)

C10_WitnessFromNull ==
  \E p \in Clients :
    /\ C10_UpdateCase(p)
    /\ PreSchoolOf(p, req[p].id) = Null
    /\ req[p].school \in DOMAIN schools

\* the store is consistent in both directions
ConsistentStore(sch, stu) ==
  /\ \A i \in DOMAIN stu :
       stu[i].school # Null =>
         stu[i].school \in DOMAIN sch /\ Has(sch[stu[i].school].students, i)
  /\ \A s \in DOMAIN sch :
       \A i \in DOMAIN sch[s].students : i \in DOMAIN stu /\ stu[i].school = s

\* C11: deleteStudent of an existing student deletes the record and leaves
\* the id in no school's students array; of a missing student it answers
\* 404 and changes nothing.
C11_DeleteCase(p) ==
  /\ Done(p, "deleteStudent")
  /\ req[p].id \in DOMAIN req[p].pre.students

C12_MoveCase(p) ==
  /\ pc[p] # "idle"
  /\ req[p].op \in {"enroll", "updateStudent"}
  /\ req[p].id \in DOMAIN req[p].pre.students
  /\ ConsistentStore(req[p].pre.schools, req[p].pre.students)
  /\ PreSchoolOf(p, req[p].id) \in DOMAIN schools
  /\ req[p].hasSchool /\ req[p].school \in DOMAIN schools
  /\ PreSchoolOf(p, req[p].id) # req[p].school

C12_NeverInBoth ==
  \A p \in Clients :
    C12_MoveCase(p) =>
      /\ ~(/\ Has(schools[PreSchoolOf(p, req[p].id)].students, req[p].id)
           /\ Has(schools[req[p].school].students, req[p].id))
      /\ pc[p] \in {"enroll_add", "updateStudent_add"} =>
           ~Has(schools[PreSchoolOf(p, req[p].id)].students, req[p].id)

\* the add to S2 is pending and S1 has already dropped the id
C12_Witness ==
  \E p \in Clients :
    /\ C12_MoveCase(p)
    /\ pc[p] \in {"enroll_add", "updateStudent_add"}
    /\ Has(PreArr(p, PreSchoolOf(p, req[p].id)), req[p].id)
    /\ ~Has(schools[PreSchoolOf(p, req[p].id)].students, req[p].id)
    /\ ~Has(schools[req[p].school].students, req[p].id)

C12_WitnessDone ==
  \E p \in Clients :
    /\ C12_MoveCase(p)
    /\ pc[p] = "done" /\ req[p].res.status = 200
    /\ Has(schools[req[p].school].students, req[p].id)

\* ------------------------------------------------- concurrent enrolments
\* A store the routes can have built: every school and student created,
\* each student unenrolled or enrolled in one school.  Two enroll requests
\* arrive and are served side by side; the run ends with their responses.
InitRace ==
  /\ \E e \in [StudentIds -> {Null} \cup SchoolIds] :
       /\ students = [i \in StudentIds |-> [school |-> e[i], email |-> Text(i)]]
       /\ schools = [s \in SchoolIds |->
                       [students |-> [i \in {j \in StudentIds : e[j] = s} |-> 1],
                        name |-> Text(1), email |-> Text(s), year |-> MinYear]]
  /\ nextSchool = MaxSchools + 1
  /\ nextStudent = MaxStudents + 1
  /\ pc = [p \in Clients |-> "idle"]
  /\ req = [p \in Clients |-> IdleReq]
  /\ limit = 2
  /\ bodyWrites = 0
  /\ year = BootYear
  /\ supplied = EmptyArr
  /\ env = "production"

NextRace ==
  \/ \E p \in Clients : EnrollFind(p)
  \/ \E p \in Clients : EnrollPull(p)
  \/ \E p \in Clients : EnrollSave(p)
  \/ \E p \in Clients : EnrollAdd(p)

SpecRace == InitRace /\ [][NextRace]_vars

\* two enrolls of the same student into different schools, both answered 200
C13_BothDone(p, q) ==
  /\ p # q
  /\ Done(p, "enroll") /\ Done(q, "enroll")
  /\ req[p].res.status = 200 /\ req[q].res.status = 200
  /\ req[p].id = req[q].id
  /\ req[p].school # req[q].school

\* C13: after two concurrent enrolls of one student into different schools
\* A and B, student.school is one of A and B only (the last write of the
\* record) and that school's array holds the id; the interleaving in which
\* both A's and B's arrays hold the id is reachable (C13_Witness).
C13_RaceOutcome ==
  \A p, q \in Clients :
    C13_BothDone(p, q) =>
      /\ students[req[p].id].school \in {req[p].school, req[q].school}
      /\ Has(schools[students[req[p].id].school].students, req[p].id)

C13_Witness ==
  \E p, q \in Clients :
    /\ C13_BothDone(p, q)
    /\ Has(schools[req[p].school].students, req[p].id)
    /\ Has(schools[req[q].school].students, req[p].id)
    /\ students[req[p].id].school = req[q].school
    /\ PreSchoolOf(p, req[p].id) = Null /\ PreSchoolOf(q, req[q].id) = Null


\* ------------------------------------------------------- failing store
\* the message of the catch-all branch of each handler
ErrorMessage(op) ==
  CASE op = "createStudent" -> "Error creating student"
    [] op = "updateStudent" -> "Error updating student"
    [] op = "deleteStudent" -> "Error deleting student"
    [] op = "enroll" -> "Error enrolling student"
    [] op = "unenroll" -> "Error unenrolling student"
    [] op = "deleteSchool" -> "Error deleting school"
    [] OTHER -> "Error"

\* the failing call takes the writes made before it back
StoreFail_Rollback(p) ==
  /\ pc[p] \notin {"idle", "done"}
  /\ schools' = req[p].pre.schools
  /\ students' = req[p].pre.students
  /\ Finish(p, [req[p] EXCEPT !.failedAt = pc[p]], 500, ErrorMessage(req[p].op))
  /\ UNCHANGED <<nextSchool, nextStudent, limit, bodyWrites, year, supplied, env>>

\* the store call a handler is about to make rejects: the await throws and
\* the catch block of the handler answers
StoreFail(p) ==
  /\ pc[p] \notin {"idle", "done"}
  /\ Finish(p, [req[p] EXCEPT !.failedAt = pc[p]], 500, ErrorMessage(req[p].op))
  /\ UNCHANGED <<schools, students, nextSchool, nextStudent, limit, bodyWrites, year, supplied, env>>

\* POST /api/students: student.save() passes validation and the store rejects it
CreateStudentSaveFail(p) ==
  /\ MayBegin(p)
  /\ \E b \in NewStudentBodies :
       /\ ValidateStudent(b.fields)
       /\ Finish(p, [NewReq("createStudent", Null, b.hasSchool, b.school, TRUE)
                       EXCEPT !.fields = b.fields, !.failedAt = "createStudent_save"],
                 500, ErrorMessage("createStudent"))
  /\ UNCHANGED <<schools, students, nextSchool, nextStudent, limit, bodyWrites, year, supplied, env>>

\* POST /api/schools with a complete body and no students array
CreateSchoolPlain(p) ==
  CreateSchoolWith(p, { [fields |-> [name |-> Text(1), email |-> Text(nextSchool),
                                     year |-> MinYear],
                         hasStudents |-> FALSE, students |-> EmptyArr] })

NextFail ==
  \/ \E p \in Clients : CreateSchoolPlain(p)
  \/ \E p \in Clients : DeleteSchoolFind(p)
  \/ \E p \in Clients : DeleteSchoolUnset(p)
  \/ \E p \in Clients : DeleteSchoolDelete(p)
  \/ \E p \in Clients : CreateStudentSave(p)
  \/ \E p \in Clients : CreateStudentAdd(p)
  \/ \E p \in Clients : UpdateStudentFind(p)
  \/ \E p \in Clients : UpdateStudentUpdate(p)
  \/ \E p \in Clients : UpdateStudentPull(p)
  \/ \E p \in Clients : UpdateStudentAdd(p)
  \/ \E p \in Clients : DeleteStudentFind(p)
  \/ \E p \in Clients : DeleteStudentPull(p)
  \/ \E p \in Clients : DeleteStudentDelete(p)
  \/ \E p \in Clients : EnrollFind(p)
  \/ \E p \in Clients : EnrollPull(p)
  \/ \E p \in Clients : EnrollSave(p)
  \/ \E p \in Clients : EnrollAdd(p)
  \/ \E p \in Clients : UnenrollFind(p)
  \/ \E p \in Clients : UnenrollPull(p)
  \/ \E p \in Clients : UnenrollSave(p)
  \/ \E p \in Clients : Respond(p)
  \/ \E p \in Clients : StoreFail(p)
  \/ \E p \in Clients : CreateStudentSaveFail(p)

SpecFail == Init /\ [][NextFail]_vars

\* sch1 is sch0 with every occurrence of student i taken out of school s's array
PulledFrom(sch1, sch0, s, i) ==
  /\ DOMAIN sch1 = DOMAIN sch0
  /\ \A x \in DOMAIN sch0 :
       IF x = s
       THEN /\ ~Has(sch1[x].students, i)
            /\ \A j \in DOMAIN sch0[x].students \ {i} :
                 Has(sch1[x].students, j) /\ sch1[x].students[j] = sch0[x].students[j]
            /\ DOMAIN sch1[x].students \subseteq DOMAIN sch0[x].students
       ELSE sch1[x] = sch0[x]

\* stu1 is stu0 with student i's school reference set to v
Referring(stu1, stu0, i, v) ==
  /\ DOMAIN stu1 = DOMAIN stu0
  /\ \A x \in DOMAIN stu0 :
       IF x = i THEN stu1[x].school = v ELSE stu1[x] = stu0[x]

\* the store after the steps that precede the failed one, and no other
PartialEffect(p) ==
  LET r == req[p]
      pre == r.pre
      at == r.failedAt
      i == r.id IN
  CASE at \in {"createStudent_save", "updateStudent_update", "deleteStudent_pull",
               "enroll_pull", "unenroll_pull", "deleteSchool_unset"} ->
         /\ schools = pre.schools
         /\ students = pre.students
    [] at = "createStudent_add" ->
         /\ schools = pre.schools
         /\ DOMAIN students = DOMAIN pre.students \cup {i}
         /\ i \notin DOMAIN pre.students
         /\ students[i].school = r.school
         /\ \A x \in DOMAIN pre.students : students[x] = pre.students[x]
    [] at = "updateStudent_pull" ->
         /\ schools = pre.schools
         /\ Referring(students, pre.students, i, IF r.hasSchool THEN r.school ELSE r.old)
    [] at = "updateStudent_add" ->
         /\ PulledFrom(schools, pre.schools, r.old, i)
         /\ Referring(students, pre.students, i, IF r.hasSchool THEN r.school ELSE r.old)
    [] at \in {"deleteStudent_delete", "enroll_save", "unenroll_save"} ->
         /\ PulledFrom(schools, pre.schools, r.old, i)
         /\ students = pre.students
    [] at = "enroll_add" ->
         /\ PulledFrom(schools, pre.schools, r.old, i)
         /\ Referring(students, pre.students, i, r.school)
    [] at = "deleteSchool_delete" ->
         /\ schools = pre.schools
         /\ DOMAIN students = DOMAIN pre.students
         /\ \A x \in DOMAIN students :
              IF pre.students[x].school = i
              THEN students[x].school = Null
              ELSE students[x] = pre.students[x]
    [] OTHER -> FALSE

\* C14: when a store write of createStudent, updateStudent, deleteStudent,
\* enroll, unenroll or deleteSchool fails, the request is answered with the
\* handler's error (500), the writes of the steps before the failed one are
\* still in the store and no write of a later step is
C14_FailedStepLeavesPartialEffect ==
  \A p \in Clients :
    (pc[p] = "done" /\ req[p].failedAt # "") =>
      /\ req[p].res = Res(500, ErrorMessage(req[p].op))
      /\ req[p].op \in {"createStudent", "updateStudent", "deleteStudent", "enroll",
                        "unenroll", "deleteSchool"}
      /\ PartialEffect(p)

\* an enroll that moves a student fails at its last step: the student is out
\* of the old school's array, refers to the new school, and is not in its array
C14_Witness ==
  \E p \in Clients :
    /\ pc[p] = "done"
    /\ req[p].failedAt = "enroll_add"
    /\ req[p].old \in DOMAIN req[p].pre.schools
    /\ req[p].old # req[p].school
    /\ Has(req[p].pre.schools[req[p].old].students, req[p].id)
    /\ ~Has(schools[req[p].old].students, req[p].id)
    /\ students[req[p].id].school = req[p].school
    /\ ~Has(schools[req[p].school].students, req[p].id)


\* ------------------------------------------------- requests with fields
\* the text c as the schema keeps it, and written in upper case with white
\* space around it
Shouted(c) == [core |-> c, upper |-> TRUE, padded |-> TRUE]
TextForms(c) == { Text(c), Shouted(c) }

Emails == UNION { TextForms(a) : a \in 1..MaxAddr } \cup {NoText, Text(Malformed)}
Years == {NoYear, MinYear - 1, MinYear} \cup (BootYear..(BootYear + MaxYearsUp + 1))

\* a complete body
GoodFields(a) == [name |-> Text(1), email |-> Text(a), year |-> MinYear]

NoArray(F) == { [fields |-> f, hasStudents |-> FALSE, students |-> EmptyArr] : f \in F }

\* bodies with every way of writing an email, and bodies whose name or
\* establishedYear the schema rejects
FieldVariants ==
  { [GoodFields(1) EXCEPT !.email = e] : e \in Emails }
  \cup { [GoodFields(1) EXCEPT !.name = n] : n \in {NoText, Text(Malformed)} }
  \cup { [GoodFields(1) EXCEPT !.year = y] : y \in {NoYear, MinYear - 1, BootYear + 1} }

CreateSchoolFields(p) == CreateSchoolWith(p, NoArray(FieldVariants))

UpdateSchoolFields(p) ==
  UpdateSchoolWith(p, NoArray({ [NoFields EXCEPT !.email = e] : e \in Emails \ {NoText} }))

CreateStudentFields(p) ==
  CreateStudentSaveWith(p, { [fields |-> [NoFields EXCEPT !.email = e],
                              hasSchool |-> FALSE, school |-> Null] : e \in Emails })

NextFields ==
  \/ \E p \in Clients : CreateSchoolFields(p)
  \/ \E p \in Clients : UpdateSchoolFields(p)
  \/ \E p \in Clients : DeleteSchoolFind(p)
  \/ \E p \in Clients : DeleteSchoolUnset(p)
  \/ \E p \in Clients : DeleteSchoolDelete(p)
  \/ \E p \in Clients : CreateStudentFields(p)
  \/ \E p \in Clients : Respond(p)

SpecFields == Init /\ [][NextFields]_vars

\* ---------------------------------------------- requests over the years
CreateSchoolYears(p) ==
  CreateSchoolWith(p, NoArray({ [GoodFields(nextSchool) EXCEPT !.year = y] : y \in Years }))

UpdateSchoolYears(p) ==
  UpdateSchoolWith(p, NoArray({ [NoFields EXCEPT !.year = y] : y \in Years \ {NoYear} }))

\* the calendar year changes while the process keeps running
Tick ==
  /\ year < BootYear + MaxYearsUp
  /\ year' = year + 1
  /\ UNCHANGED <<schools, students, nextSchool, nextStudent, pc, req, bodyWrites, limit,
                 supplied, env>>

NextYears ==
  \/ \E p \in Clients : CreateSchoolYears(p)
  \/ \E p \in Clients : UpdateSchoolYears(p)
  \/ \E p \in Clients : Respond(p)
  \/ Tick

SpecYears == Init /\ [][NextYears]_vars

\* ------------------------------------------------- create, then read back
CreateSchoolTexts(p) ==
  CreateSchoolWith(p, NoArray({ [name |-> n, email |-> e, year |-> MinYear] :
                                  n \in TextForms(1), e \in TextForms(nextSchool) }))

UpdateSchoolTexts(p) ==
  UpdateSchoolWith(p, NoArray({ [NoFields EXCEPT !.name = n] : n \in TextForms(1) }))

NextTexts ==
  \/ \E p \in Clients : CreateSchoolTexts(p)
  \/ \E p \in Clients : UpdateSchoolTexts(p)
  \/ \E p \in Clients : GetSchool(p)
  \/ \E p \in Clients : DeleteSchoolFind(p)
  \/ \E p \in Clients : DeleteSchoolUnset(p)
  \/ \E p \in Clients : DeleteSchoolDelete(p)
  \/ \E p \in Clients : Respond(p)

SpecTexts == Init /\ [][NextTexts]_vars


\* ------------------------------------------------- claims on the fields
NameBad(t) == t.core = 0 \/ t.core = Malformed
EmailBad(t) == t.core < 1
YearBad(y, now) == y = NoYear \/ y < MinYear \/ y > now

\* a completed create whose body breaks a constraint of the schema
C15_Violates(p) ==
  LET f == req[p].fields IN
  \/ /\ Done(p, "createSchool")
     /\ (NameBad(f.name) \/ EmailBad(f.email) \/ YearBad(f.year, req[p].now))
  \/ /\ Done(p, "createStudent")
     /\ EmailBad(f.email)

\* C15: a create of a School or Student whose body breaks a schema constraint
\* is answered 400 "Validation error" and leaves both collections, and so
\* every students array, as they were
C15_InvalidCreateRejected ==
  \A p \in Clients :
    C15_Violates(p) =>
      /\ req[p].res = Res(400, "Validation error")
      /\ Snapshot = req[p].pre
      /\ req[p].failedAt = ""

\* a School with a year below the minimum is refused while a School exists
C15_Witness ==
  \E p \in Clients :
    /\ Done(p, "createSchool")
    /\ req[p].fields.year = MinYear - 1
    /\ req[p].res.status = 400
    /\ DOMAIN schools # {}

\* a completed create with an acceptable body whose email, whatever its
\* case, is the email of a record of the same type
C16_DupCase(p) ==
  /\ pc[p] = "done"
  /\ ~C15_Violates(p)
  /\ \/ /\ req[p].op = "createSchool"
        /\ \E x \in DOMAIN req[p].pre.schools :
             req[p].pre.schools[x].email.core = req[p].fields.email.core
     \/ /\ req[p].op = "createStudent"
        /\ \E x \in DOMAIN req[p].pre.students :
             req[p].pre.students[x].email.core = req[p].fields.email.core

\* C16: a create whose email equals, after normalization, the email of a live
\* record of the same type is answered 400 "Email already exists" and
\* persists nothing; no two live Schools and no two live Students share an
\* email
C16_UniqueEmail ==
  /\ \A x, y \in DOMAIN schools : x # y => schools[x].email.core # schools[y].email.core
  /\ \A x, y \in DOMAIN students : x # y => students[x].email.core # students[y].email.core
  /\ \A p \in Clients :
       C16_DupCase(p) =>
         /\ req[p].res = Res(400, "Email already exists")
         /\ Snapshot = req[p].pre

\* the duplicate is written in another case than the stored email
C16_Witness ==
  \E p \in Clients :
    /\ C16_DupCase(p)
    /\ req[p].op = "createSchool"
    /\ req[p].fields.email.upper
    /\ req[p].res.message = "Email already exists"

C17_Ops == {"getSchool", "updateSchool", "deleteSchool", "getStudent", "updateStudent",
            "deleteStudent"}

C17_Missing(p) ==
  /\ pc[p] = "done"
  /\ req[p].op \in C17_Ops
  /\ IF req[p].op \in {"getSchool", "updateSchool", "deleteSchool"}
     THEN req[p].id \notin DOMAIN req[p].pre.schools
     ELSE req[p].id \notin DOMAIN req[p].pre.students

\* C17: get, update and delete of a School or Student by an id that no live
\* record has are answered 404 and leave the store unchanged
C17_MissingIdIsNotFound ==
  \A p \in Clients :
    C17_Missing(p) =>
      /\ req[p].res.status = 404
      /\ Snapshot = req[p].pre

\* C18: a School created with valid fields (201) has an empty students array
\* in the store and in the response
C18_NewSchoolHasNoStudents ==
  \A p \in Clients :
    (Done(p, "createSchool") /\ req[p].res.status = 201) =>
      /\ schools[req[p].id].students = EmptyArr
      /\ req[p].data.students = {}

\* C19: a School create, or an update of a live School, that carries the
\* establishedYear y and is otherwise valid is accepted iff
\* 1800 <= y <= the calendar year at the time of the request
C19_YearAcceptedIffInRange ==
  \A p \in Clients :
    ( /\ pc[p] = "done"
      /\ req[p].op \in {"createSchool", "updateSchool"}
      /\ req[p].fields.year # NoYear
      /\ ~NameBad(req[p].fields.name) \/ req[p].op = "updateSchool"
      /\ ~EmailBad(req[p].fields.email) \/ req[p].op = "updateSchool"
      /\ req[p].op = "updateSchool" => req[p].id \in DOMAIN req[p].pre.schools ) =>
      ( req[p].res.status \in {200, 201}
          <=> (MinYear <= req[p].fields.year /\ req[p].fields.year <= req[p].now) )

\* the text the schema keeps of a supplied name / email
C20_KeptName(t) == [core |-> t.core, upper |-> t.upper, padded |-> FALSE]
C20_KeptEmail(t) == [core |-> t.core, upper |-> FALSE, padded |-> FALSE]

\* a completed get of a School that was created and not updated since
C20_ReadBack(p) ==
  /\ Done(p, "getSchool")
  /\ req[p].res.status = 200
  /\ req[p].id \in DOMAIN supplied

\* C20 as stated: the get returns exactly the supplied name, email and
\* establishedYear
C20_RoundTripExact ==
  \A p \in Clients :
    C20_ReadBack(p) =>
      /\ req[p].data.name = supplied[req[p].id].name
      /\ req[p].data.email = supplied[req[p].id].email
      /\ req[p].data.year = supplied[req[p].id].year

\* C20: the get returns the supplied values as the schema normalizes them:
\* the name trimmed, the email trimmed and in lower case, the
\* establishedYear as supplied
C20_RoundTripNormalized ==
  \A p \in Clients :
    C20_ReadBack(p) =>
      /\ req[p].data.name = C20_KeptName(supplied[req[p].id].name)
      /\ req[p].data.email = C20_KeptEmail(supplied[req[p].id].email)
      /\ req[p].data.year = supplied[req[p].id].year

\* a School created with a padded upper-case email is read back in lower case
C20_Witness ==
  \E p \in Clients :
    /\ C20_ReadBack(p)
    /\ supplied[req[p].id].email.upper
    /\ supplied[req[p].id].email.padded
    /\ ~req[p].data.email.upper
    /\ ~req[p].data.email.padded


\* ------------------------------------------------------ error responses
Envs == {"production", "development"}

\* a store in which every id has been generated, every School and Student is
\* live and the two sides of every reference agree
PopulatedStore ==
  /\ \E e \in [StudentIds -> {Null} \cup SchoolIds] :
       /\ students = [i \in StudentIds |-> [school |-> e[i], email |-> Text(i)]]
       /\ schools = [s \in SchoolIds |->
                       [students |-> [i \in {j \in StudentIds : e[j] = s} |-> 1],
                        name |-> Text(1), email |-> Text(s), year |-> MinYear]]
  /\ nextSchool = MaxSchools + 1
  /\ nextStudent = MaxStudents + 1
  /\ pc = [p \in Clients |-> "idle"]
  /\ req = [p \in Clients |-> IdleReq]
  /\ bodyWrites = 0
  /\ year = BootYear
  /\ supplied = EmptyArr

\* body-parser rejects the request body: the error reaches the error
\* handling middleware of server.js
ParseFail(p) ==
  /\ MayBegin(p)
  /\ Goto(p, "done",
          [NewReq("unparsed", Null, FALSE, Null, FALSE) EXCEPT !.res =
             [status |-> 500, message |-> "Internal server error",
              error |-> IF env = "development" THEN RawError ELSE "Something went wrong"]])
  /\ UNCHANGED <<schools, students, nextSchool, nextStudent, limit, bodyWrites, year,
                 supplied, env>>

InitLeak ==
  /\ PopulatedStore
  /\ limit = 1
  /\ env \in Envs

NextLeak ==
  \/ \E p \in Clients : EnrollFind(p)
  \/ \E p \in Clients : EnrollPull(p)
  \/ \E p \in Clients : EnrollSave(p)
  \/ \E p \in Clients : EnrollAdd(p)
  \/ \E p \in Clients : DeleteSchoolFind(p)
  \/ \E p \in Clients : DeleteSchoolUnset(p)
  \/ \E p \in Clients : DeleteSchoolDelete(p)
  \/ \E p \in Clients : StoreFail(p)
  \/ \E p \in Clients : ParseFail(p)
  \/ \E p \in Clients : Respond(p)

SpecLeak == InitLeak /\ [][NextLeak]_vars

\* C21: in production mode the body of no response carries error.message of
\* the underlying failure
C21_NoRawErrorInProduction ==
  \A p \in Clients :
    (pc[p] = "done" /\ env = "production") => req[p].res.error # RawError


\* C22: updateStudent persists the student's fields last: while its $pull or
\* its $addToSet is still to be made, the student record is the one the
\* request found
C22_PersistIsLast ==
  \A p \in Clients :
    pc[p] \in {"updateStudent_pull", "updateStudent_add"} =>
      students[req[p].id] = req[p].pre.students[req[p].id]


\* a completed unenroll of a student that was enrolled in an existing School
C23_UnenrollCase(p) ==
  /\ Done(p, "unenroll")
  /\ req[p].res.status = 200
  /\ PreSchoolOf(p, req[p].id) \in DOMAIN req[p].pre.schools

\* C23: unenroll first takes the id out of the school's array, then sets
\* student.school to null; when it has completed student.school is null and
\* the id is in no School's students array
C23_UnenrollLeavesNoMember ==
  \A p \in Clients :
    /\ (pc[p] = "unenroll_save" /\ req[p].old \in DOMAIN schools) =>
         /\ ~Has(schools[req[p].old].students, req[p].id)
         /\ students[req[p].id].school = req[p].old
    /\ C23_UnenrollCase(p) =>
         /\ students[req[p].id].school = Null
         /\ \A s \in DOMAIN schools : ~Has(schools[s].students, req[p].id)


\* an enroll or updateStudent that moves a student from one existing School
\* to another stopped after its $pull and before its $addToSet had effect
C24_StoppedMove(p) ==
  /\ pc[p] = "done"
  /\ \/ req[p].op = "enroll" /\ req[p].failedAt \in {"enroll_save", "enroll_add"}
     \/ req[p].op = "updateStudent" /\ req[p].failedAt = "updateStudent_add"
  /\ req[p].old \in DOMAIN req[p].pre.schools
  /\ req[p].school \in DOMAIN req[p].pre.schools
  /\ req[p].old # req[p].school
  /\ Has(PreArr(p, req[p].old), req[p].id)
  /\ ~Has(PreArr(p, req[p].school), req[p].id)

\* C24: a move that stops between the remove from S1 and the add to S2 leaves
\* the student in the store and its id in neither S1's nor S2's array
C24_StoppedMoveLeavesNeither ==
  \A p \in Clients :
    C24_StoppedMove(p) =>
      /\ StudentExists(req[p].id)
      /\ ~Has(schools[req[p].old].students, req[p].id)
      /\ ~Has(schools[req[p].school].students, req[p].id)

\* the window is reached by an updateStudent: the record already names S2
C24_Witness ==
  \E p \in Clients :
    /\ C24_StoppedMove(p)
    /\ req[p].op = "updateStudent"
    /\ students[req[p].id].school = req[p].school


\* ------------------------------------------------- requests side by side
\* Two requests are served side by side on a populated store; the run ends
\* with their responses.
InitMix ==
  /\ PopulatedStore
  /\ limit = 2
  /\ env = "production"

\* the step of client p's handler that follows an answer of the store
Continue(p) ==
  \/ UpdateStudentUpdate(p)
  \/ UpdateStudentPull(p)
  \/ UpdateStudentAdd(p)
  \/ DeleteStudentPull(p)
  \/ DeleteStudentDelete(p)
  \/ EnrollPull(p)
  \/ EnrollSave(p)
  \/ EnrollAdd(p)
  \/ UnenrollPull(p)
  \/ UnenrollSave(p)
  \/ DeleteSchoolUnset(p)
  \/ DeleteSchoolDelete(p)

NextMix ==
  \/ \E p \in Clients : UpdateStudentFind(p)
  \/ \E p \in Clients : DeleteStudentFind(p)
  \/ \E p \in Clients : EnrollFind(p)
  \/ \E p \in Clients : UnenrollFind(p)
  \/ \E p \in Clients : DeleteSchoolFind(p)
  \/ \E p \in Clients : Continue(p)

SpecMix == InitMix /\ [][NextMix]_vars

\* the two requests arrive while every Student is enrolled in the first School
InitLive ==
  /\ InitMix
  /\ \A i \in StudentIds : students[i].school = 1

\* the store answers every call and the event loop runs a continuation
\* whenever one is ready
SpecLive == InitLive /\ [][NextMix]_vars /\ WF_vars(\E p \in Clients : Continue(p))

\* C25: whatever the other requests do, the operations under way all come to
\* have their response, and a response once given is never replaced
C25_EveryOperationCompletes ==
  /\ (~Quiescent) ~> Quiescent
  /\ [][\A p \in Clients :
          pc[p] = "done" => (pc'[p] = "done" /\ req'[p] = req[p])]_vars

\* an enroll and an unenroll of one student ran interleaved and both
\* completed: the student has no school and a School it was moved to holds it
C25_Witness ==
  \E p, q \in Clients :
    /\ Done(p, "enroll") /\ req[p].res.status = 200
    /\ Done(q, "unenroll") /\ req[q].res.status = 200
    /\ req[p].id = req[q].id
    /\ students[req[p].id].school = Null
    /\ Has(schools[req[p].school].students, req[p].id)


\* a completed update of a live School or Student whose body sets a field to
\* a value the schema rejects
C26_InvalidUpdate(p) ==
  LET f == req[p].fields IN
  /\ pc[p] = "done"
  /\ \/ /\ req[p].op = "updateSchool"
        /\ req[p].id \in DOMAIN req[p].pre.schools
        /\ \/ f.name # NoText /\ NameBad(f.name)
           \/ f.email # NoText /\ EmailBad(f.email)
           \/ f.year # NoYear /\ YearBad(f.year, req[p].now)
     \/ /\ req[p].op = "updateStudent"
        /\ req[p].id \in DOMAIN req[p].pre.students
        /\ f.email # NoText /\ EmailBad(f.email)

\* C26: an update whose supplied fields break a constraint is answered 400
\* "Validation error"; the stored record and every students array are as
\* before, also when the body of updateStudent named another school
C26_InvalidUpdateRejected ==
  \A p \in Clients :
    C26_InvalidUpdate(p) =>
      /\ req[p].res = Res(400, "Validation error")
      /\ Snapshot = req[p].pre

\* the rejected updateStudent named an existing School other than the
\* student's own
C26_Witness ==
  \E p \in Clients :
    /\ C26_InvalidUpdate(p)
    /\ req[p].op = "updateStudent"
    /\ req[p].hasSchool
    /\ req[p].school \in DOMAIN schools
    /\ req[p].school # students[req[p].id].school
    /\ students[req[p].id].school \in DOMAIN schools


\* a completed create or School update with an acceptable body whose email
\* is, whatever its case, the email of another record of the same type
C27_Collision(p) ==
  \/ C16_DupCase(p)
  \/ /\ Done(p, "updateSchool")
     /\ req[p].id \in DOMAIN req[p].pre.schools
     /\ ~EmailBad(req[p].fields.email)
     /\ \E x \in DOMAIN req[p].pre.schools \ {req[p].id} :
          req[p].pre.schools[x].email.core = req[p].fields.email.core

\* C27: every collision on the unique email, on create and on update, is
\* answered 400 "Email already exists"
C27_CollisionIsDuplicateKey ==
  \A p \in Clients :
    C27_Collision(p) => req[p].res = Res(400, "Email already exists")


\* ------------------------------------- requests that name live schools only
\* the school a student request body names: none, null, or a live School
LiveSchools == { <<FALSE, Null>>, <<TRUE, Null>> } \cup { <<TRUE, s>> : s \in DOMAIN schools }

CreateStudentClean(p) ==
  CreateStudentSaveWith(p,
    { [fields |-> [NoFields EXCEPT !.email = e], hasSchool |-> b[1], school |-> b[2]] :
        e \in {Text(nextStudent), NoText}, b \in LiveSchools })

UpdateStudentClean(p) ==
  UpdateStudentFindWith(p,
    { [fields |-> [NoFields EXCEPT !.email = e], hasSchool |-> b[1], school |-> b[2]] :
        e \in {NoText, Text(Malformed)}, b \in LiveSchools })

\* PATCH /api/students/:id/enroll naming a live School
EnrollClean(p) ==
  /\ EnrollFind(p)
  /\ req'[p].school \in DOMAIN schools

UpdateSchoolClean(p) ==
  UpdateSchoolWith(p, NoArray({ NoFields, [NoFields EXCEPT !.email = Text(Malformed)] }))

NextClean ==
  \/ \E p \in Clients : CreateSchoolPlain(p)
  \/ \E p \in Clients : UpdateSchoolClean(p)
  \/ \E p \in Clients : DeleteSchoolFind(p)
  \/ \E p \in Clients : DeleteSchoolUnset(p)
  \/ \E p \in Clients : DeleteSchoolDelete(p)
  \/ \E p \in Clients : CreateStudentClean(p)
  \/ \E p \in Clients : CreateStudentAdd(p)
  \/ \E p \in Clients : UpdateStudentClean(p)
  \/ \E p \in Clients : UpdateStudentUpdate(p)
  \/ \E p \in Clients : UpdateStudentPull(p)
  \/ \E p \in Clients : UpdateStudentAdd(p)
  \/ \E p \in Clients : DeleteStudentFind(p)
  \/ \E p \in Clients : DeleteStudentPull(p)
  \/ \E p \in Clients : DeleteStudentDelete(p)
  \/ \E p \in Clients : EnrollClean(p)
  \/ \E p \in Clients : EnrollPull(p)
  \/ \E p \in Clients : EnrollSave(p)
  \/ \E p \in Clients : EnrollAdd(p)
  \/ \E p \in Clients : UnenrollFind(p)
  \/ \E p \in Clients : UnenrollPull(p)
  \/ \E p \in Clients : UnenrollSave(p)
  \/ \E p \in Clients : Respond(p)

SpecClean == Init /\ [][NextClean]_vars

\* C28: in a run of one request at a time in which every school id a request
\* supplies is the id of a live School and no School body carries a students
\* array, after every completed operation a student names a School exactly
\* when that School's students array holds its id, and every array holds ids
\* of live students only
C28_RestrictedTwoWay == Quiescent => ConsistentStore(schools, students)

\* an updateStudent has moved a student from one live School to another
C28_Witness ==
  \E p \in Clients :
    /\ Done(p, "updateStudent")
    /\ req[p].res.status = 200
    /\ PreSchoolOf(p, req[p].id) \in DOMAIN schools
    /\ students[req[p].id].school \in DOMAIN schools
    /\ students[req[p].id].school # PreSchoolOf(p, req[p].id)
    /\ Has(schools[students[req[p].id].school].students, req[p].id)


\* C29: when updateStudent, enroll and unenroll requests that ran side by
\* side have all completed, a student whose school is a live School is in
\* that School's students array
C29_ReferencedSchoolHoldsStudent ==
  ( /\ Quiescent
    /\ \A p \in Clients : req[p].op \in {"none", "updateStudent", "enroll", "unenroll"} ) =>
    \A i \in DOMAIN students :
      students[i].school \in DOMAIN schools =>
        Has(schools[students[i].school].students, i)


\* C30: when deleteSchool(X) and a side-by-side enroll into X, or an
\* updateStudent whose body names X, have both completed, no Student's school
\* refers to the deleted X
C30_DeleteCase(p, q) ==
  /\ pc[p] = "done" /\ pc[q] = "done"
  /\ req[p].op = "deleteSchool" /\ req[p].res.status = 200
  /\ req[q].op \in {"enroll", "updateStudent"}
  /\ req[q].hasSchool /\ req[q].school = req[p].id

C30_NoReferenceToDeletedSchool ==
  \A p, q \in Clients :
    C30_DeleteCase(p, q) =>
      \A i \in DOMAIN students : students[i].school # req[p].id


\* ------------------------------------------------ the two read paths
\* Student.find({ school: req.params.id })
FindBySchool(stu, s) == { i \in DOMAIN stu : stu[i].school = s }

\* GET /api/schools/:id/students: School.findById(req.params.id)
ListStudentsFind(p) ==
  /\ MayBegin(p)
  /\ \E id \in KnownSchools :
       LET r == NewReq("listStudents", id, FALSE, Null, TRUE) IN
       IF ~SchoolExists(id)
       THEN Finish(p, r, 404, "School not found")
       ELSE Goto(p, "listStudents_find", r)
  /\ UNCHANGED <<schools, students, nextSchool, nextStudent, limit, bodyWrites, year, supplied, env>>

\* students = Student.find({ school: req.params.id }); count: students.length
ListStudentsQuery(p) ==
  /\ pc[p] = "listStudents_find"
  /\ LET found == FindBySchool(students, req[p].id) IN
     Finish(p, [req[p] EXCEPT !.data = [kind |-> "students", students |-> found,
                                        count |-> Cardinality(found)]],
            200, "")
  /\ UNCHANGED <<schools, students, nextSchool, nextStudent, limit, bodyWrites, year, supplied, env>>

NextReads ==
  \/ \E p \in Clients : CreateSchool(p)
  \/ \E p \in Clients : UpdateSchool(p)
  \/ \E p \in Clients : GetSchool(p)
  \/ \E p \in Clients : ListStudentsFind(p)
  \/ \E p \in Clients : ListStudentsQuery(p)
  \/ \E p \in Clients : DeleteSchoolFind(p)
  \/ \E p \in Clients : DeleteSchoolUnset(p)
  \/ \E p \in Clients : DeleteSchoolDelete(p)
  \/ \E p \in Clients : CreateStudentSave(p)
  \/ \E p \in Clients : CreateStudentAdd(p)
  \/ \E p \in Clients : UpdateStudentFind(p)
  \/ \E p \in Clients : UpdateStudentUpdate(p)
  \/ \E p \in Clients : UpdateStudentPull(p)
  \/ \E p \in Clients : UpdateStudentAdd(p)
  \/ \E p \in Clients : DeleteStudentFind(p)
  \/ \E p \in Clients : DeleteStudentPull(p)
  \/ \E p \in Clients : DeleteStudentDelete(p)
  \/ \E p \in Clients : EnrollFind(p)
  \/ \E p \in Clients : EnrollPull(p)
  \/ \E p \in Clients : EnrollSave(p)
  \/ \E p \in Clients : EnrollAdd(p)
  \/ \E p \in Clients : UnenrollFind(p)
  \/ \E p \in Clients : UnenrollPull(p)
  \/ \E p \in Clients : UnenrollSave(p)
  \/ \E p \in Clients : Respond(p)

SpecReads == Init /\ [][NextReads]_vars

\* the students get-school would return for school s on the present store
C31_Populated(s) == { i \in DOMAIN schools[s].students : StudentExists(i) }

\* C31: with one request at a time, a 200 answer of list-students-of-school(X)
\* holds exactly the students that get-school(X) returns on the same store,
\* and a 200 answer of get-school(X) holds exactly the students whose school
\* field is X
C31_ReadPathsAgree ==
  \A p \in Clients :
    (pc[p] = "done" /\ req[p].res.status = 200) =>
      /\ req[p].op = "listStudents" => req[p].data.students = C31_Populated(req[p].id)
      /\ req[p].op = "getSchool" => req[p].data.students = FindBySchool(students, req[p].id)


\* an updateStudent of an existing student whose body has no school field,
\* or names the school the student already has
C32_KeepCase(p) ==
  /\ pc[p] # "idle"
  /\ req[p].op = "updateStudent"
  /\ req[p].id \in DOMAIN req[p].pre.students
  /\ (~req[p].hasSchool \/ req[p].school = PreSchoolOf(p, req[p].id))

\* C32: with one request at a time, an updateStudent that does not change the
\* student's school leaves every School's students set as it was once it has
\* completed, and at no step of the handler is the student missing from the
\* set of its school that held it before
C32_KeptSchoolKeepsSets ==
  \A p \in Clients :
    C32_KeepCase(p) =>
      LET id == req[p].id
          X == PreSchoolOf(p, id) IN
      /\ pc[p] = "done" =>
           /\ DOMAIN schools = DOMAIN req[p].pre.schools
           /\ \A s \in DOMAIN schools :
                DOMAIN schools[s].students = DOMAIN PreArr(p, s)
      /\ (X \in DOMAIN req[p].pre.schools /\ Has(PreArr(p, X), id)) =>
           Has(schools[X].students, id)

=============================================================================
